---- MODULE Spec2Model ----
(***************************************************************************)
(* Model of ajwerner/logcolor: the EntryDecoder (a bufio.Scanner driven by *)
(* EntryDecoder.split and a header regexp), the idle-timeout               *)
(* bufferedReader (one background copy goroutine, one consumer), the       *)
(* decoder reading through the bufferedReader, and LogEntry.Match.         *)
(*                                                                         *)
(* Byte strings are sequences of one-character strings.  Offsets inside a  *)
(* byte string are 0-based as in Go; a Go slice s[a:b] is                  *)
(* SubSeq(s, a+1, b).  A Go index pair (FindIndex) is a 2-tuple whose      *)
(* element 1 is Go's [0] and element 2 is Go's [1]; nil is <<>>.           *)
(***************************************************************************)
EXTENDS Integers, Sequences, FiniteSets, TLC

\* ------------------------------------------------------------------ bounds
\* Longest input stream of the decoder model.
MaxLen == 8
\* Scaled stand-in for bufio.MaxScanTokenSize in the bounded decoder model.
MaxTok == 6
\* Scaled stand-in for bufio's initial scanner buffer size.
StartBuf == 2

\* Most bytes the underlying reader of the bufferedReader delivers.
MaxSrc == 3
\* Most bytes io.Copy moves in one Write.
MaxChunk == 2
\* Longest buffer a consumer passes to bufferedReader.Read.
MaxDest == 2

\* -------------------------------------------------------- program constants
\* bufio.MaxScanTokenSize (64 * 1024), the cap split compares len(data) with.
MaxScanTokenSize == 65536
\* bufio's startBufSize, the first buffer bufio.NewScanner's Scan allocates.
startBufSize == 4096

nil == <<>>

Min(a, b) == IF a < b THEN a ELSE b

\* Go's s[a:b].
Slice(s, a, b) == SubSeq(s, a + 1, b)

\* All byte strings over alphabet A of length 0..n.
StringsUpTo(A, n) == UNION {[1..k -> A] : k \in 0..n}

Digits == {"0", "1", "2", "3", "4", "5", "6", "7", "8", "9"}

\* ------------------------------------------------------------ the regexp
\* A header pattern is E\d{digits}, optionally anchored, and either without
\* capture groups or (named = TRUE) with both parts captured by name, as
\* (?P<level>E)(?P<num>\d{digits}):
\*   anchor = "none" :    E\d{k}
\*   anchor = "line" : (?m)^E\d{k}   ^ matches at the start of the searched
\*                                   text and after every "\n" in it
\*   anchor = "text" :     ^E\d{k}   ^ matches only at the start of the
\*                                   searched text
\* The searched text is the byte slice handed to the regexp: the regexp never
\* sees bytes before the slice.
Anchors == {"none", "line", "text"}

HeaderLen(pat) == 1 + pat.digits

\* The match test with the multi-line flag ignored: ^ only at the text start.
MatchAtIgnoringFlag(s, p, pat) ==
    /\ p + HeaderLen(pat) <= Len(s)
    /\ s[p + 1] = "E"
    /\ \A k \in 1..pat.digits : s[p + 1 + k] \in Digits
    /\ pat.anchor \in {"line", "text"} => p = 0

\* Does the pattern match the text s at 0-based offset p?
MatchAt(s, p, pat) ==
    /\ p + HeaderLen(pat) <= Len(s)
    /\ s[p + 1] = "E"
    /\ \A k \in 1..pat.digits : s[p + 1 + k] \in Digits
    /\ CASE pat.anchor = "none" -> TRUE
         [] pat.anchor = "line" -> p = 0 \/ s[p] = "\n"
         [] pat.anchor = "text" -> p = 0

\* regexp.FindIndex: the leftmost match as <<start, end>>, or nil.
FindIndex(s, pat) ==
    LET hits == {p \in 0..(Len(s) - 1) : MatchAt(s, p, pat)}
    IN  IF hits = {} THEN nil
        ELSE LET p == CHOOSE q \in hits : \A r \in hits : q <= r
             IN  <<p, p + HeaderLen(pat)>>

\* Regexp.SubexpNames: element 1 (Go's names[0]) is always the empty string,
\* then one name per capture group.
SubexpNames(pat) == IF pat.named THEN <<"", "level", "num">> ELSE <<"">>

\* regexp.FindSubmatchIndex: the whole-match pair, then one pair per capture
\* group, all as offsets into s; nil when there is no match.
FindSubmatchIndex(s, pat) ==
    LET i == FindIndex(s, pat) IN
    IF i = nil \/ ~pat.named THEN i
    ELSE <<i[1], i[2], i[1], i[1] + 1, i[1] + 1, i[2]>>

\* ----------------------------------------------------------------- split
\* A result whose advance stops one byte short of the token's end.
SplitResultShort(adv, has, tok, trunc, cut) ==
    [advance |-> IF has THEN adv - 1 ELSE adv, hasToken |-> has,
     token |-> tok, truncated |-> trunc, cut |-> cut]

\* The result of one call of the split function: advance, token (hasToken is
\* token != nil) and the value of d.truncatedLastEntry after the call; cut
\* tells that the token was emitted by the size cap.
SplitResult(adv, has, tok, trunc, cut) ==
    [advance |-> adv, hasToken |-> has, token |-> tok,
     truncated |-> trunc, cut |-> cut]

\* onNoMatch without its atEOF case: the rest of the stream is never emitted.
onNoMatchWithoutEOF(data, atEOF, maxSize) ==
    IF Len(data) >= maxSize
    THEN SplitResult(Len(data), TRUE, data, TRUE, TRUE)
    ELSE SplitResult(0, FALSE, nil, FALSE, FALSE)

\* onNoMatch without its size test: below EOF it always asks for more.
onNoMatchUncapped(data, atEOF, maxSize) ==
    IF atEOF
    THEN SplitResult(Len(data), TRUE, data, FALSE, FALSE)
    ELSE SplitResult(0, FALSE, nil, FALSE, FALSE)

\* The closure onNoMatch of split, with the data, atEOF and cap it sees.
onNoMatch(data, atEOF, maxSize) ==
    IF atEOF
    THEN SplitResult(Len(data), TRUE, data, FALSE, FALSE)
    ELSE IF Len(data) >= maxSize
         THEN SplitResult(Len(data), TRUE, data, TRUE, TRUE)
         ELSE SplitResult(0, FALSE, nil, FALSE, FALSE)

\* The boundary taken as j[0] alone, relative to data[i[1]:], not to data.
BoundaryUnadjusted(i, j) == j[1]

\* i[1] + j[0]: the start of the next log entry, relative to data.
Boundary(i, j) == i[2] + j[1]

\* The no-match return of the truncated block with the flag cleared.
dropWindowClears(data) == SplitResult(Len(data), FALSE, nil, FALSE, FALSE)

\* split, truncated block, i == nil: advance past the whole window, which
\* belongs to the truncated entry; d.truncatedLastEntry is not touched.
dropWindow(data) == SplitResult(Len(data), FALSE, nil, TRUE, FALSE)

split(data, atEOF, truncatedLastEntry, pat, maxSize) ==
    IF atEOF /\ Len(data) = 0
    THEN SplitResult(0, FALSE, nil, truncatedLastEntry, FALSE)
    ELSE
      LET i == FindIndex(data, pat) IN
      IF truncatedLastEntry /\ i = nil
      THEN dropWindow(data)
      ELSE IF truncatedLastEntry /\ i[1] > 0
      THEN SplitResult(i[1], FALSE, nil, FALSE, FALSE)
      ELSE IF i = nil
      THEN onNoMatch(data, atEOF, maxSize)
      ELSE
        LET j == FindIndex(Slice(data, i[2], Len(data)), pat) IN
        IF j = nil
        THEN onNoMatch(data, atEOF, maxSize)
        ELSE SplitResult(Boundary(i, j), TRUE,
                         Slice(data, 0, Boundary(i, j)), FALSE, FALSE)

\* ------------------------------------------------- the scanner's Scan loop
\* The decoder state d holds d.truncatedLastEntry and the fields of
\* d.scanner: the buffer is buf[0:buflen], the unconsumed window is
\* buf[start:end], err is the scanner's sticky error ("nil" when unset).
\* The source src holds the stream (data) and how much of it has been read
\* (pos); buf[0:end] always holds the last `end` bytes read.
NewDecoder ==
    [truncatedLastEntry |-> FALSE, start |-> 0, end |-> 0, buflen |-> 0,
     err |-> "nil"]

Window(src, d) == Slice(src.data, src.pos - (d.end - d.start), src.pos)

\* Stream offset of the first byte of the window.
WindowOffset(src, d) == src.pos - (d.end - d.start)

\* Scan, first half of the loop body: is split called on what is held?
CallsSplit(d) == d.end > d.start \/ d.err # "nil"

SplitOf(src, d, pat, lim) ==
    split(Window(src, d), d.err # "nil", d.truncatedLastEntry, pat,
          lim.maxTokenSize)

\* Scan, before reading: shift the window to the front of the buffer and grow
\* the buffer when it is full; a full buffer of maximal size is ErrTooLong.
BeforeRead(d, lim) ==
    LET shifted ==
          IF d.start > 0 /\ (d.end = d.buflen \/ 2 * d.start > d.buflen)
          THEN [d EXCEPT !.end = d.end - d.start, !.start = 0]
          ELSE d
    IN  IF shifted.end # shifted.buflen THEN shifted
        ELSE IF shifted.buflen >= lim.maxTokenSize
             THEN [shifted EXCEPT !.err = "ErrTooLong"]
             ELSE LET doubled == IF shifted.buflen = 0 THEN lim.startBufSize
                                 ELSE 2 * shifted.buflen
                  IN  [shifted EXCEPT
                         !.buflen = Min(doubled, lim.maxTokenSize),
                         !.end = shifted.end - shifted.start,
                         !.start = 0]

\* The source's Read into buf[end:len(buf)]: n bytes, and io.EOF when eof.
AfterRead(d, n, eof) ==
    [d EXCEPT !.end = d.end + n, !.err = IF eof THEN "EOF" ELSE "nil"]

\* -------------------------------------------------------------- the entry
\* e.Header = string(b[m[0]:m[1]])
HeaderOf(b, m) == Slice(b, m[1], m[2])

\* The message taken one byte late: b[m[1]+1:].
MessageSkipsOne(b, m) == Slice(b, m[2] + 1, Len(b))

\* e.Message = string(b[m[1]:])
MessageOf(b, m) == Slice(b, m[2], Len(b))

NoEntry == [Header |-> nil, Message |-> nil, matches |-> nil]

\* One pass through the first half of Scan's loop, with Decode's handling of
\* a token: the decoder after it and what happens next.
\*   "entry" : split returned a token that re-matches; Decode returns nil
\*   "skip"  : split returned a token that does not re-match; Decode scans on
\*   "stop"  : no token and the scanner has an error; Scan returns false
\*   "read"  : no token; Scan goes on to read
ScanTop(src, d, pat, lim) ==
    IF ~CallsSplit(d)
    THEN [d |-> d, next |-> "read", entry |-> NoEntry, cut |-> FALSE]
    ELSE
      LET r == SplitOf(src, d, pat, lim)
          m == FindSubmatchIndex(r.token, pat)
          d1 == [d EXCEPT !.start = d.start + r.advance,
                          !.truncatedLastEntry = r.truncated]
      IN  IF r.hasToken
          THEN IF m = nil
               THEN [d |-> d1, next |-> "skip", entry |-> NoEntry,
                     cut |-> r.cut]
               ELSE [d |-> d1, next |-> "entry",
                     entry |-> [Header |-> HeaderOf(r.token, m),
                                Message |-> MessageOf(r.token, m),
                                matches |-> m],
                     cut |-> r.cut]
          ELSE IF d.err # "nil"
               THEN [d |-> [d1 EXCEPT !.start = 0, !.end = 0],
                     next |-> "stop", entry |-> NoEntry, cut |-> FALSE]
               ELSE [d |-> d1, next |-> "read", entry |-> NoEntry,
                     cut |-> FALSE]

\* What Decode returns when Scan returned false: scanner.Err() is nil for
\* io.EOF, and Decode then returns io.EOF itself.
DecodeError(err) == IF err = "EOF" THEN "EOF" ELSE err

\* The pairs (Header, Message) Decode returns up to io.EOF when every Read of
\* the source fills all the free room of the scanner's buffer: the run of
\* the decoder under one particular way of delivering the stream.
RECURSIVE RunFilling(_, _, _, _, _)
RunFilling(src, d, pat, lim, acc) ==
    LET t == ScanTop(src, d, pat, lim) IN
    CASE t.next = "entry" ->
           RunFilling(src, t.d, pat, lim,
                      Append(acc, <<t.entry.Header, t.entry.Message>>))
      [] t.next = "skip" -> RunFilling(src, t.d, pat, lim, acc)
      [] t.next = "stop" -> acc
      [] t.next = "read" ->
           LET d1 == BeforeRead(t.d, lim)
               left == Len(src.data) - src.pos
               n == Min(d1.buflen - d1.end, left)
           IN  IF d1.err # "nil" THEN acc
               ELSE RunFilling([src EXCEPT !.pos = src.pos + n],
                               AfterRead(d1, n, left = 0), pat, lim, acc)

\* ------------------------------------------------------------------ state
VARIABLES
    re,        \* d.re: the header pattern
    limits,    \* [maxTokenSize, startBufSize] of the scanner
    src,       \* the source reader: [data, pos]
    d,         \* the EntryDecoder and its scanner
    pc,        \* where Decode is: "idle", "scan" (top of Scan's loop), "read"
    e,         \* the Entry passed to Decode
    ret,       \* what the last Decode returned: "none", "nil", "EOF", an error
    entries,   \* history: each entry returned, with the stream offset of its
               \* token (off) and whether the size cap emitted it (cut)
    skipped,   \* history: tokens Decode dropped because they did not re-match
    truncs,    \* history: tokens emitted by the size cap
    \* the bufferedReader br, its copy goroutine and its consumer
    rsrc,      \* br.r, the underlying reader: [data, pos, ending]
    br,        \* [buf, err, r]: br.buf, br.err, and whether br.r is set
    mu,        \* br.mu: "free" or the holder
    waiter,    \* is a sender blocked on br.ready (the consumer, in select)
    c,         \* the consumer's chan c (capacity 1): values queued in it
    ppc,       \* copy goroutine: "copy", "write", "unlock", "finish", "done"
    pw,        \* copy goroutine locals: [chunk, c, err]
    cpc,       \* consumer's Read: "idle", "lock", "preselect", "select", "recv"
    rd,        \* Read's locals: [len (of its argument buf), n, err]
    rdret,     \* history: how the last Read returned
    got,       \* history: all bytes Read has returned, in order
    \* the LogEntry le of main (its Entry is e, its Pattern is re)
    subexpNames, \* le.subexpNames: the cache, a map from name to index
    mret       \* history: the last call of le.Match and what it returned

decVars == <<re, limits, src, d, pc, e, ret, entries, skipped, truncs>>
bufVars == <<rsrc, br, mu, waiter, c, ppc, pw, cpc, rd, rdret, got>>
tmplVars == <<subexpNames, mret>>
vars == <<decVars, bufVars, tmplVars>>

\* main's LogEntry{Pattern: pattern, subexpNames: map[string]int{}}.
NoMatchCall == [called |-> FALSE, name |-> "", text |-> nil, err |-> "nil",
                at |-> 0]

NewLogEntry ==
    /\ subexpNames = [n \in {} |-> 0]
    /\ mret = NoMatchCall

\* The bufferedReader right after NewBufferedReader(r, idleTimeout), before
\* the goroutine has run, over the underlying reader s.
NoRead == [how |-> "none", n |-> 0, err |-> "nil", bufAtCall |-> 0,
           errAtCall |-> "nil", closedAtCall |-> FALSE, waited |-> FALSE,
           bufAtReturn |-> 0]

NewBufferedReader(s) ==
    /\ rsrc = s
    /\ br = [buf |-> <<>>, err |-> "nil", r |-> TRUE]
    /\ mu = "free"
    /\ waiter = FALSE
    /\ c = 0
    /\ ppc = "copy"
    /\ pw = [chunk |-> <<>>, c |-> FALSE, err |-> "nil"]
    /\ cpc = "idle"
    /\ rd = [len |-> 0, n |-> 0, err |-> "nil"]
    /\ rdret = NoRead
    /\ got = <<>>

\* The decoder right after NewEntryDecoder(re, r) over the stream s.
NewEntryDecoder(pat, lim, s) ==
    /\ re = pat
    /\ limits = lim
    /\ src = [data |-> s, pos |-> 0]
    /\ d = NewDecoder
    /\ pc = "idle"
    /\ e = NoEntry
    /\ ret = "none"
    /\ entries = <<>>
    /\ skipped = 0
    /\ truncs = 0

\* A reader that has no bytes and blocks for ever.
BlockedReader == [data |-> <<>>, pos |-> 0, ending |-> "block"]

\* ------------------------------------------------------------------- Init
Alphabet == {"E", "1", "\n"}

Init ==
    /\ \E a \in Anchors, s \in StringsUpTo(Alphabet, MaxLen) :
          NewEntryDecoder([anchor |-> a, digits |-> 1, named |-> TRUE],
                          [maxTokenSize |-> MaxTok, startBufSize |-> StartBuf],
                          s)
    /\ NewBufferedReader(BlockedReader)
    /\ NewLogEntry

\* ---------------------------------------------------------------- actions
\* main's loop calls Decode until it returns io.EOF or an error.
DecodeCall ==
    /\ pc = "idle"
    /\ ret \in {"none", "nil"}
    /\ pc' = "scan"
    /\ UNCHANGED <<re, limits, src, d, e, ret, entries, skipped, truncs>>
    /\ UNCHANGED bufVars
    /\ UNCHANGED tmplVars

\* Top of Scan's loop: call split on the window; a token goes back to Decode,
\* which re-matches it and returns the entry or scans on.
ScanSplit ==
    /\ pc = "scan"
    /\ UNCHANGED <<re, limits, src>>
    /\ UNCHANGED bufVars
    /\ UNCHANGED tmplVars
    /\ LET t == ScanTop(src, d, re, limits) IN
       /\ d' = t.d
       /\ truncs' = IF t.cut THEN truncs + 1 ELSE truncs
       /\ skipped' = IF t.next = "skip" THEN skipped + 1 ELSE skipped
       /\ pc' = CASE t.next = "entry" -> "idle"
                  [] t.next = "skip"  -> "scan"
                  [] t.next = "stop"  -> "idle"
                  [] t.next = "read"  -> "read"
       /\ e' = IF t.next = "entry" THEN t.entry ELSE e
       /\ entries' = IF t.next = "entry"
                     THEN Append(entries,
                            [Header |-> t.entry.Header,
                             Message |-> t.entry.Message,
                             matches |-> t.entry.matches,
                             off |-> WindowOffset(src, d),
                             cut |-> t.cut])
                     ELSE entries
       /\ ret' = CASE t.next = "entry" -> "nil"
                   [] t.next = "stop"  -> DecodeError(d.err)
                   [] OTHER            -> ret

\* Rest of Scan's loop: make room, then one Read of the source.  The source
\* returns between 1 and len(buf)-end bytes, or io.EOF at the end of the
\* stream, alone or together with the last bytes.
ScanRead ==
    /\ pc = "read"
    /\ UNCHANGED <<re, limits, e, entries, skipped, truncs>>
    /\ UNCHANGED bufVars
    /\ UNCHANGED tmplVars
    /\ LET d1 == BeforeRead(d, limits)
           left == Len(src.data) - src.pos
       IN  IF d1.err # "nil"
           THEN /\ d' = d1
                /\ ret' = DecodeError(d1.err)
                /\ pc' = "idle"
                /\ UNCHANGED src
           ELSE /\ \E n \in 0..Min(d1.buflen - d1.end, left), eof \in BOOLEAN :
                     /\ (n = 0) => (left = 0 /\ eof)
                     /\ eof => n = left
                     /\ d' = AfterRead(d1, n, eof)
                     /\ src' = [src EXCEPT !.pos = src.pos + n]
                /\ pc' = "scan"
                /\ UNCHANGED ret

Next == DecodeCall \/ ScanSplit \/ ScanRead

Spec == Init /\ [][Next]_vars

\* The concrete scenario: the stream "E0001 hello\nE0002 world\n" decoded with
\* the scanner's default sizes, under the header pattern E\d{4} with each of
\* the three anchors.
ScenarioInput ==
    <<"E", "0", "0", "0", "1", " ", "h", "e", "l", "l", "o", "\n",
      "E", "0", "0", "0", "2", " ", "w", "o", "r", "l", "d", "\n">>

InitScenario ==
    /\ \E a \in Anchors :
          NewEntryDecoder([anchor |-> a, digits |-> 4, named |-> FALSE],
                          [maxTokenSize |-> MaxScanTokenSize,
                           startBufSize |-> startBufSize],
                          ScenarioInput)
    /\ NewBufferedReader(BlockedReader)
    /\ NewLogEntry

SpecScenario == InitScenario /\ [][Next]_vars

\* ------------------------------------------------------ the bufferedReader
\* How the underlying reader behaves once its bytes are delivered: it blocks
\* for ever, reports io.EOF, or fails with an error of its own.
Endings == {"block", "eof", "err"}

InitBuf ==
    /\ \E n \in 0..MaxSrc, en \in Endings :
          NewBufferedReader([data |-> [k \in 1..n |-> k], pos |-> 0,
                             ending |-> en])
    /\ NewEntryDecoder([anchor |-> "none", digits |-> 1, named |-> TRUE],
                       [maxTokenSize |-> MaxTok, startBufSize |-> StartBuf],
                       <<>>)
    /\ NewLogEntry

\* What io.Copy(br, r) returns when r ends: nil when r reported io.EOF (a
\* successful Copy returns nil, never io.EOF), r's error otherwise.
CopyResult(ending) == IF ending = "eof" THEN "nil" ELSE "SourceError"

\* br.err as the goroutine sets it from io.Copy's result.
RecordedErr(err) == IF err = "EOF" THEN "ErrUnexpectedEOF" ELSE err

\* Write with the new bytes put in front of the buffered ones.
bufWritePrepends(buf, data) == data \o buf

\* r.buf.Write(data): bytes.Buffer appends data to the unread bytes.
bufWrite(buf, data) == buf \o data

\* r.buf.Read(buf) moving n bytes out: what bytes.Buffer still holds.
bufAfterRead(buf, n) == Slice(buf, n, Len(buf))

\* Write's deferred send left out: the channel c is as it was.
SignalDropped(has, queued) == queued

\* Write's deferred send done whether or not a channel was received.
SignalAlways(has, queued) == queued + 1

\* Write's deferred `c <- struct{}{}`, registered only when c != nil: the
\* values queued in c after it.
SignalSent(has, queued) == IF has THEN queued + 1 ELSE queued

\* The goroutine, inside io.Copy: one Read of the underlying reader.
CopyRead ==
    /\ ppc = "copy"
    /\ LET left == Len(rsrc.data) - rsrc.pos IN
       IF left > 0
       THEN /\ \E k \in 1..Min(MaxChunk, left) :
                 /\ pw' = [pw EXCEPT
                             !.chunk = Slice(rsrc.data, rsrc.pos, rsrc.pos + k)]
                 /\ rsrc' = [rsrc EXCEPT !.pos = rsrc.pos + k]
            /\ ppc' = "write"
       ELSE /\ rsrc.ending # "block"
            /\ pw' = [pw EXCEPT !.err = CopyResult(rsrc.ending)]
            /\ ppc' = "finish"
            /\ UNCHANGED rsrc
    /\ UNCHANGED <<br, mu, waiter, c, cpc, rd, rdret, got>>
    /\ UNCHANGED decVars
    /\ UNCHANGED tmplVars

\* Write, up to its return statement: take the lock, receive from br.ready
\* without blocking (which succeeds exactly when the consumer is blocked in
\* its select), append data to br.buf.
WriteLocked ==
    /\ ppc = "write"
    /\ mu = "free"
    /\ mu' = "producer"
    /\ pw' = [pw EXCEPT !.c = waiter]
    /\ waiter' = FALSE
    /\ cpc' = IF waiter THEN "recv" ELSE cpc
    /\ br' = [br EXCEPT !.buf = bufWrite(br.buf, pw.chunk)]
    /\ ppc' = "unlock"
    /\ UNCHANGED <<rsrc, c, rd, rdret, got>>
    /\ UNCHANGED decVars
    /\ UNCHANGED tmplVars

\* Write's deferred calls, last registered first: send on c when c != nil,
\* then unlock.
WriteDeferred ==
    /\ ppc = "unlock"
    /\ pw.c => c < 1
    /\ c' = SignalSent(pw.c, c)
    /\ mu' = "free"
    /\ pw' = [pw EXCEPT !.chunk = <<>>, !.c = FALSE]
    /\ ppc' = "copy"
    /\ UNCHANGED <<rsrc, br, waiter, cpc, rd, rdret, got>>
    /\ UNCHANGED decVars
    /\ UNCHANGED tmplVars

\* The goroutine after io.Copy returned: under the lock, record br.err and
\* clear br.r.
CopyDone ==
    /\ ppc = "finish"
    /\ mu = "free"
    /\ br' = [br EXCEPT !.err = RecordedErr(pw.err), !.r = FALSE]
    /\ ppc' = "done"
    /\ UNCHANGED <<rsrc, mu, waiter, c, pw, cpc, rd, rdret, got>>
    /\ UNCHANGED decVars
    /\ UNCHANGED tmplVars

\* Read returns (n, err): the history of the call is completed.
ReadReturns(how, n, err, buffered) ==
    /\ cpc' = "idle"
    /\ rdret' = [rdret EXCEPT !.how = how, !.n = n, !.err = err,
                              !.bufAtReturn = buffered]

\* A consumer calls Read(buf) with len(buf) > 0; c is a fresh channel and the
\* named results n and err are zero.
ReadCall ==
    /\ cpc = "idle"
    /\ \E len \in 1..MaxDest : rd' = [len |-> len, n |-> 0, err |-> "nil"]
    /\ c' = 0
    /\ cpc' = "lock"
    /\ rdret' = [how |-> "pending", n |-> 0, err |-> "nil",
                 bufAtCall |-> Len(br.buf), errAtCall |-> br.err,
                 closedAtCall |-> (ppc = "done" /\ rsrc.ending = "eof"),
                 waited |-> FALSE, bufAtReturn |-> 0]
    /\ UNCHANGED <<rsrc, br, mu, waiter, ppc, pw, got>>
    /\ UNCHANGED decVars
    /\ UNCHANGED tmplVars

\* Read's locked section and the test that follows it: with br.err set it
\* returns the named results n and err as they are; otherwise it reads
\* br.buf (bytes.Buffer.Read: io.EOF when the buffer is empty) and returns
\* unless that reported io.EOF.
ReadLocked ==
    /\ cpc = "lock"
    /\ mu = "free"
    /\ IF br.err # "nil"
       THEN /\ ReadReturns("errcheck", rd.n, rd.err, Len(br.buf))
            /\ UNCHANGED <<br, rd, got>>
       ELSE LET thisN == Min(rd.len, Len(br.buf))
                err == IF Len(br.buf) = 0 THEN "EOF" ELSE "nil"
                n == rd.n + thisN
            IN  /\ br' = [br EXCEPT !.buf = bufAfterRead(br.buf, thisN)]
                /\ got' = got \o Slice(br.buf, 0, thisN)
                /\ rd' = [rd EXCEPT !.n = n, !.err = err]
                /\ IF err # "EOF"
                   THEN ReadReturns("data", n, err, Len(br.buf) - thisN)
                   ELSE /\ cpc' = "preselect"
                        /\ UNCHANGED rdret
    /\ UNCHANGED <<rsrc, mu, waiter, c, ppc, pw>>
    /\ UNCHANGED decVars
    /\ UNCHANGED tmplVars

\* Read enters its select: it is now a sender blocked on br.ready, and the
\* timer of time.After(r.timeout) runs.
ReadSelect ==
    /\ cpc = "preselect"
    /\ cpc' = "select"
    /\ waiter' = TRUE
    /\ rdret' = [rdret EXCEPT !.waited = TRUE]
    /\ UNCHANGED <<rsrc, br, mu, c, ppc, pw, rd, got>>
    /\ UNCHANGED decVars
    /\ UNCHANGED tmplVars

\* The timer fires before any Write received from br.ready: the bare return
\* hands back the named results.
ReadTimeout ==
    /\ cpc = "select"
    /\ waiter
    /\ waiter' = FALSE
    /\ ReadReturns("timeout", rd.n, rd.err, Len(br.buf))
    /\ UNCHANGED <<rsrc, br, mu, c, ppc, pw, rd, got>>
    /\ UNCHANGED decVars
    /\ UNCHANGED tmplVars

\* A Write received c from br.ready; Read receives from c and loops.
ReadWake ==
    /\ cpc = "recv"
    /\ c > 0
    /\ c' = c - 1
    /\ cpc' = "lock"
    /\ UNCHANGED <<rsrc, br, mu, waiter, ppc, pw, rd, rdret, got>>
    /\ UNCHANGED decVars
    /\ UNCHANGED tmplVars

NextBuf ==
    \/ CopyRead \/ WriteLocked \/ WriteDeferred \/ CopyDone
    \/ ReadCall \/ ReadLocked \/ ReadSelect \/ ReadTimeout \/ ReadWake

SpecBuf == InitBuf /\ [][NextBuf]_vars

\* The decoder with a small size cap, so that streams run through the
\* truncated mode of split more than once.
MaxTruncLen == 7
MaxTruncTok == 4

InitTrunc ==
    /\ \E a \in Anchors, s \in StringsUpTo(Alphabet, MaxTruncLen) :
          NewEntryDecoder([anchor |-> a, digits |-> 1, named |-> TRUE],
                          [maxTokenSize |-> MaxTruncTok,
                           startBufSize |-> StartBuf],
                          s)
    /\ NewBufferedReader(BlockedReader)
    /\ NewLogEntry

SpecTrunc == InitTrunc /\ [][Next]_vars

\* The bufferedReader with its scheduling: the copy goroutine is run whenever
\* it can take a step, a Read that has been called is run whenever it can
\* take a step, and the timer of time.After fires when Read stays in its
\* select.  When Read is called is left to the consumer.
SpecBufLive ==
    /\ InitBuf /\ [][NextBuf]_vars
    /\ WF_vars(CopyRead) /\ WF_vars(WriteLocked) /\ WF_vars(WriteDeferred)
    /\ WF_vars(CopyDone)
    /\ WF_vars(ReadLocked) /\ WF_vars(ReadSelect) /\ WF_vars(ReadTimeout)
    /\ WF_vars(ReadWake)

\* ------------------------------- the decoder reading a bufferedReader
\* NewEntryDecoder(re, NewBufferedReader(r, idleTimeout)): the scanner's
\* reader is the bufferedReader, so the stream the scanner has read is the
\* bytes Read has returned (src.data = got, src.pos = Len(got)).
MaxStall == 4

InitStall ==
    /\ \E s \in StringsUpTo(Alphabet, MaxStall), en \in Endings :
          NewBufferedReader([data |-> s, pos |-> 0, ending |-> en])
    /\ NewEntryDecoder([anchor |-> "line", digits |-> 1, named |-> TRUE],
                       [maxTokenSize |-> MaxTok, startBufSize |-> StartBuf],
                       <<>>)
    /\ NewLogEntry

\* Rest of Scan's loop: make room, then call s.r.Read(s.buf[s.end:len(s.buf)])
\* on the bufferedReader.
ScanReadCall ==
    /\ pc = "read"
    /\ cpc = "idle"
    /\ UNCHANGED <<re, limits, src, e, entries, skipped, truncs>>
    /\ UNCHANGED <<rsrc, br, mu, waiter, ppc, pw, got>>
    /\ UNCHANGED tmplVars
    /\ LET d1 == BeforeRead(d, limits) IN
       /\ d' = d1
       /\ IF d1.err # "nil"
          THEN /\ ret' = DecodeError(d1.err)
               /\ pc' = "idle"
               /\ UNCHANGED <<c, cpc, rd, rdret>>
          ELSE /\ rd' = [len |-> d1.buflen - d1.end, n |-> 0, err |-> "nil"]
               /\ c' = 0
               /\ cpc' = "lock"
               /\ rdret' = [how |-> "pending", n |-> 0, err |-> "nil",
                            bufAtCall |-> Len(br.buf), errAtCall |-> br.err,
                            closedAtCall |->
                                (ppc = "done" /\ rsrc.ending = "eof"),
                            waited |-> FALSE, bufAtReturn |-> 0]
               /\ pc' = "reading"
               /\ UNCHANGED ret

\* The scanner's error after a Read that returned (n, err): setErr(err) for
\* err != nil.  A Read returning (0, nil) is retried; the bufferedReader
\* returns (0, nil) only with br.err set, which is never cleared, so each of
\* the 100 retries returns the same and Scan sets io.ErrNoProgress.
ScanReadErr(n, err) ==
    IF err # "nil" THEN err
    ELSE IF n = 0 THEN "ErrNoProgress" ELSE "nil"

\* The bufferedReader's Read has returned to Scan: s.end += n, and the
\* scanner's error is set from err.
ScanReadReturn ==
    /\ pc = "reading"
    /\ cpc = "idle"
    /\ d' = [d EXCEPT !.end = d.end + rdret.n,
                      !.err = ScanReadErr(rdret.n, rdret.err)]
    /\ src' = [data |-> got, pos |-> Len(got)]
    /\ pc' = "scan"
    /\ UNCHANGED <<re, limits, e, ret, entries, skipped, truncs>>
    /\ UNCHANGED bufVars
    /\ UNCHANGED tmplVars

NextStall ==
    \/ DecodeCall \/ ScanSplit \/ ScanReadCall \/ ScanReadReturn
    \/ CopyRead \/ WriteLocked \/ WriteDeferred \/ CopyDone
    \/ ReadLocked \/ ReadSelect \/ ReadTimeout \/ ReadWake

SpecStall == InitStall /\ [][NextStall]_vars

\* ------------------------------------------------------ LogEntry.Match
\* Longest input stream of the model in which the template calls Match.
MaxMatchLen == 5

\* The names the output template asks for: the empty name, the two capture
\* groups of the pattern, and a name the pattern does not have.
CaptureNames == {"", "level", "num", "nope"}

\* findSubexp(capture): the cached index when the name is cached; otherwise
\* the first index i with SubexpNames()[i] = capture, which is then cached;
\* otherwise (-1, false) with the cache as it was.
findSubexp(cache, names, capture) ==
    IF capture \in DOMAIN cache
    THEN [idx |-> cache[capture], ok |-> TRUE, cache |-> cache]
    ELSE LET hits == {i \in 1..Len(names) : names[i] = capture} IN
         IF hits = {}
         THEN [idx |-> 0 - 1, ok |-> FALSE, cache |-> cache]
         ELSE LET i == CHOOSE k \in hits : \A l \in hits : k <= l
              IN  [idx |-> i - 1, ok |-> TRUE,
                   cache |-> [n \in DOMAIN cache \cup {capture} |->
                                IF n = capture THEN i - 1 ELSE cache[n]]]

\* le.Header[le.matches[2*idx]:le.matches[(2*idx)+1]]: the slice expression
\* panics when its bounds are out of range for Header.
HeaderSlice(header, matches, idx) ==
    LET lo == matches[2 * idx + 1]
        hi == matches[2 * idx + 2]
    IN  IF lo > hi \/ hi > Len(header)
        THEN [text |-> nil, err |-> "panic"]
        ELSE [text |-> Slice(header, lo, hi), err |-> "nil"]

\* The template, executed after Decode returned nil, calls le.Match(name).
Match ==
    /\ pc = "idle"
    /\ ret = "nil"
    /\ \E name \in CaptureNames :
          LET f == findSubexp(subexpNames, SubexpNames(re), name) IN
          /\ subexpNames' = f.cache
          /\ mret' = IF ~f.ok
                     THEN [called |-> TRUE, name |-> name, text |-> nil,
                           err |-> "NoSuchCapture", at |-> Len(entries)]
                     ELSE LET r == HeaderSlice(e.Header, e.matches, f.idx)
                          IN  [called |-> TRUE, name |-> name,
                               text |-> r.text, err |-> r.err,
                               at |-> Len(entries)]
    /\ UNCHANGED decVars
    /\ UNCHANGED bufVars

InitMatch ==
    /\ \E a \in Anchors, s \in StringsUpTo(Alphabet, MaxMatchLen) :
          NewEntryDecoder([anchor |-> a, digits |-> 1, named |-> TRUE],
                          [maxTokenSize |-> MaxTok, startBufSize |-> StartBuf],
                          s)
    /\ NewBufferedReader(BlockedReader)
    /\ NewLogEntry

NextMatch == DecodeCall \/ ScanSplit \/ ScanRead \/ Match

SpecMatch == InitMatch /\ [][NextMatch]_vars

\* ------------------------------------------------------- stream-level views
\* The bytes of the entries, Header then Message, in order.
RECURSIVE Raw(_)
Raw(es) == IF es = <<>> THEN <<>>
           ELSE es[1].Header \o es[1].Message \o Raw(Tail(es))

\* The header matches of a whole stream, as the boundary matcher defines
\* them: the first match, then the first match of what follows the end of
\* the previous match, and so on; each as <<start, end>> stream offsets.
RECURSIVE MatchesFrom(_, _, _)
MatchesFrom(s, base, pat) ==
    LET i == FindIndex(s, pat) IN
    IF i = nil THEN <<>>
    ELSE <<<<base + i[1], base + i[2]>>>>
         \o MatchesFrom(Slice(s, i[2], Len(s)), base + i[2], pat)

StreamMatches == MatchesFrom(src.data, 0, re)

\* Stream offsets of an entry: where its header starts and where its message
\* ends (exclusive).
HeaderStart(en) == en.off + en.matches[1]
MessageEnd(en) == en.off + en.matches[2] + Len(en.Message)

\* The (Header, Message) pairs returned so far.
Pairs(es) == [k \in 1..Len(es) |-> <<es[k].Header, es[k].Message>>]

\* --------------------------------------------------------------- claims

\* C1 as stated: when Decode has returned io.EOF and no token was emitted by
\* the size cap, Header+Message of the entries returned, concatenated in
\* order, is the input stream, for every input and every chunking.
C1_LosslessAnyInput ==
    (ret = "EOF" /\ truncs = 0) => Raw(entries) = src.data

\* C1 amended: the same, for the inputs that begin with a header match (no
\* byte precedes the first header match).
C1_LosslessFromHeader ==
    (ret = "EOF" /\ truncs = 0 /\ MatchAt(src.data, 0, re))
        => Raw(entries) = src.data

C1_Witness ==
    /\ ret = "EOF" /\ truncs = 0 /\ MatchAt(src.data, 0, re)
    /\ Len(src.data) = MaxLen
    /\ Len(entries) >= 2
    /\ \E k \in 1..Len(entries) : "\n" \in {entries[k].Message[x] :
                                              x \in 1..Len(entries[k].Message)}
    /\ Raw(entries) = src.data

C4_TruncationRecovery ==
    \A k \in 1..Len(entries) :
        (re.anchor = "none" /\ entries[k].cut)
            => LET cutAt == MessageEnd(entries[k])
                   nx == FindIndex(Slice(src.data, cutAt, Len(src.data)), re)
               IN  /\ k < Len(entries)
                        => /\ nx # nil
                           /\ HeaderStart(entries[k + 1]) = cutAt + nx[1]
                   /\ (ret = "EOF" /\ nx # nil) => k < Len(entries)

\* The two entries of the concrete scenario.
ScenarioEntries ==
    << <<Slice(ScenarioInput, 0, 5), Slice(ScenarioInput, 5, 12)>>,
       <<Slice(ScenarioInput, 12, 17), Slice(ScenarioInput, 17, 24)>> >>

\* C5 as stated: under ^E\d{4} without the multi-line flag, the scenario
\* stream decodes to exactly {"E0001", " hello\n"} and {"E0002", " world\n"}
\* before io.EOF.
C5_ScenarioTextAnchor ==
    (re.anchor = "text" /\ ret = "EOF") => Pairs(entries) = ScenarioEntries

\* C5 amended: under (?m)^E\d{4}, with the multi-line flag, the scenario
\* stream decodes to exactly those two entries before io.EOF.
C5_ScenarioLineAnchor ==
    (re.anchor = "line" /\ ret = "EOF") => Pairs(entries) = ScenarioEntries

C5_Witness ==
    /\ re.anchor = "line" /\ ret = "EOF"
    /\ Len(entries) = 2
    /\ e.Header = <<"E", "0", "0", "0", "2">>
    /\ e.Message = <<" ", "w", "o", "r", "l", "d", "\n">>

\* C6: the (Header, Message) pairs returned up to io.EOF are the same however
\* the source delivers the stream: they are those of the run in which every
\* Read fills the buffer.
C6_ChunkingIndependent ==
    ret = "EOF"
        => Pairs(entries) = RunFilling([data |-> src.data, pos |-> 0],
                                       NewDecoder, re, limits, <<>>)

\* C7: a Read called while br.buf holds at least one byte returns buffered
\* bytes at once: n > 0, and it never entered the select.
C7_DataReturnedAtOnce ==
    (rdret.how \in {"errcheck", "data", "timeout"} /\ rdret.bufAtCall > 0)
        => (rdret.n > 0 /\ ~rdret.waited)

\* C8: a Read that returns by the idle timeout (zero bytes, io.EOF) does so
\* only with nothing delivered: br.buf is empty when the timer fires.
C8_TimeoutOnlyWhenEmpty ==
    rdret.how = "timeout" => rdret.bufAtReturn = 0

\* C9: a Read called after the underlying reader ended with io.EOF and the
\* copy goroutine finished, with nothing left in br.buf, returns
\* io.ErrUnexpectedEOF.
C9_UnexpectedClose ==
    (rdret.how \in {"errcheck", "data", "timeout"} /\ rdret.closedAtCall
       /\ rdret.bufAtCall = 0)
        => rdret.err = "ErrUnexpectedEOF"

\* C10: a Read called after the goroutine recorded the underlying reader's
\* own error returns that recorded error.
C10_SourceErrorVerbatim ==
    (rdret.how \in {"errcheck", "data", "timeout"}
       /\ rdret.errAtCall = "SourceError")
        => rdret.err = "SourceError"

\* The bytes the copy goroutine has written into br.buf so far: the bytes it
\* has read from the underlying reader, less a chunk not yet written.
Written ==
    Slice(rsrc.data, 0,
          IF ppc = "write" THEN rsrc.pos - Len(pw.chunk) ELSE rsrc.pos)

\* C11: the bytes Read has returned so far, in the order returned, are a
\* prefix of the bytes the producer has written so far; those not yet
\* returned are exactly what br.buf holds.
C11_Ordering ==
    /\ Len(got) <= Len(Written)
    /\ got = Slice(Written, 0, Len(got))
    /\ got \o br.buf = Written

C11_Witness ==
    /\ Len(got) >= 2
    /\ Len(br.buf) >= 1
    /\ rdret.how = "data"
    /\ got \o br.buf = rsrc.data

\* C12: no byte copied into br.buf is lost: a Read that returns because the
\* terminal error is recorded leaves nothing undelivered in br.buf (the
\* buffered bytes were delivered before the terminal status or with it).
\* br.err is never cleared, so every later Read returns the same way.
C12_NoLoss ==
    rdret.how = "errcheck" => rdret.bufAtReturn = 0

\* C13: over a source that never ends and still has bytes to deliver after a
\* stall longer than the idle timeout, Decode does not report io.EOF: the
\* entries that arrive after the stall are still to be decoded.
C13_NoFalseTermination ==
    (rsrc.ending = "block" /\ Len(got) < Len(rsrc.data)) => ret # "EOF"

\* Write's deferred send finds room in c: it cannot block under the lock.
WriteSendCannotBlock == (ppc = "unlock" /\ pw.c) => c < 1

\* A consumer waiting on c has its signal queued or about to be sent.
SignalIsComing == cpc = "recv" => (c > 0 \/ (ppc = "unlock" /\ pw.c))

\* The lock is held only inside Write, between its Lock and deferred Unlock.
LockHeldOnlyInWrite == (mu = "producer") <=> (ppc = "unlock")

\* C14: every Read that is called returns; Write never blocks on the wake-up
\* signal while it holds the lock; the consumer never waits for a signal
\* that is not sent.
C14_BoundedSuspension ==
    /\ [](WriteSendCannotBlock /\ SignalIsComing /\ LockHeldOnlyInWrite)
    /\ (cpc # "idle") ~> (cpc = "idle")

C14_Witness ==
    /\ cpc = "recv" /\ c = 0
    /\ ppc = "unlock" /\ pw.c /\ mu = "producer"
    /\ rsrc.pos < Len(rsrc.data)

\* The names of the pattern's capture groups.
GroupNames(pat) ==
    {SubexpNames(pat)[i] : i \in 2..Len(SubexpNames(pat))} \ {""}

\* C15: Match(name) with a name that is not a capture group of the pattern
\* returns the NoSuchCapture error.
C15_AbsentName ==
    (mret.called /\ mret.name \notin GroupNames(re))
        => mret.err = "NoSuchCapture"

\* The bytes of the stream that the capture group called name captured in
\* the header match of the entry en.
Captured(en, name, pat) ==
    LET i == CHOOSE k \in 1..Len(SubexpNames(pat)) :
                 SubexpNames(pat)[k] = name
    IN  Slice(src.data, en.off + en.matches[2 * i - 1],
              en.off + en.matches[2 * i])

\* C20: for an entry Decode returned and a capture group of the pattern,
\* Match(name) returns without failing, and returns exactly the bytes the
\* group captured.
C20_MatchReturnsCapture ==
    (mret.called /\ mret.name \in GroupNames(re))
        => /\ mret.err = "nil"
           /\ mret.text = Captured(entries[mret.at], mret.name, re)

\* This step is a call of split by Scan, on the window.
SplitStep == pc = "scan" /\ CallsSplit(d)

\* The header match split's FindIndex finds in the window, or nil.
WindowMatch == FindIndex(Window(src, d), re)

\* C16 as stated: once d.truncatedLastEntry is set it stays set over every
\* step except a split step that finds a header match at offset 0 of the
\* window; a split step that finds no match, or a match at an offset > 0,
\* leaves it set.
C16_SetUntilMatchAtZero ==
    [][(d.truncatedLastEntry
          /\ ~(SplitStep /\ WindowMatch # nil /\ WindowMatch[1] = 0))
         => d'.truncatedLastEntry]_vars

\* C16 amended: once set, the flag stays set over every step except a split
\* step that finds a header match anywhere in the window; a split step that
\* finds no match leaves it set, and one that finds a match at an offset > 0
\* clears it, without a token.
C16_SetUntilMatch ==
    [][/\ (d.truncatedLastEntry /\ ~(SplitStep /\ WindowMatch # nil))
            => d'.truncatedLastEntry
       /\ (d.truncatedLastEntry /\ SplitStep /\ WindowMatch # nil
              /\ WindowMatch[1] > 0)
            => /\ ~d'.truncatedLastEntry
               /\ entries' = entries /\ skipped' = skipped]_vars

\* After a token was cut, a split step has dropped a window without a match
\* and the flag is still set.
C16_Witness ==
    /\ d.truncatedLastEntry
    /\ truncs >= 1
    /\ pc = "read"
    /\ d.start = d.end
    /\ d.err = "nil"
    /\ src.pos > MaxTruncTok

\* This split step reaches split's normal matching: the window is not the
\* empty window at EOF, and the flag is clear or a match at offset 0 clears it.
NormalMatching ==
    /\ SplitStep
    /\ ~(d.err # "nil" /\ Window(src, d) = <<>>)
    /\ d.truncatedLastEntry => (WindowMatch # nil /\ WindowMatch[1] = 0)

\* The window has no header match, or none after the end of the first one.
NoBoundary ==
    \/ WindowMatch = nil
    \/ FindIndex(Slice(Window(src, d), WindowMatch[2], Len(Window(src, d))),
                 re) = nil

\* This step handed Decode a token: an entry was returned or a token dropped.
TokenEmitted == entries' # entries \/ skipped' # skipped

\* C17: in normal matching without a boundary, the step emits the whole
\* window as a token exactly when the input is exhausted or the window has
\* reached the size cap, and the flag is set exactly when it is the cap and
\* not the end of input; otherwise the step emits nothing, advances by 0 and
\* goes on to read.  So below the cap and before the end of input a token is
\* emitted only at a boundary.
C17_ThreeWayPolicy ==
    [][(NormalMatching /\ NoBoundary)
         => LET w == Window(src, d)
                atEOF == d.err # "nil"
                full == Len(w) >= limits.maxTokenSize
            IN  IF atEOF \/ full
                THEN /\ TokenEmitted
                     /\ d'.start = d.start + Len(w)
                     /\ d'.truncatedLastEntry = ~atEOF
                     /\ truncs' = IF atEOF THEN truncs ELSE truncs + 1
                     /\ entries' # entries
                          => LET en == entries'[Len(entries')] IN
                             /\ en.off = WindowOffset(src, d)
                             /\ en.Header \o en.Message
                                  = Slice(w, en.matches[1], Len(w))
                ELSE /\ ~TokenEmitted
                     /\ d'.start = d.start
                     /\ ~d'.truncatedLastEntry
                     /\ truncs' = truncs
                     /\ pc' = "read"]_vars

\* One entry was emitted by the size cap and a later one at the end of input.
C17_Witness ==
    /\ ret = "EOF"
    /\ Len(entries) >= 2
    /\ entries[1].cut
    /\ ~entries[Len(entries)].cut
    /\ MessageEnd(entries[Len(entries)]) = Len(src.data)
    /\ Len(StreamMatches) = Len(entries)

\* A Write has received the consumer's channel and has yet to send on it.
SignalInFlight == ppc = "unlock" /\ pw.c

\* C18: the consumer's channel never holds more than one signal; a signal is
\* queued or in flight only for a consumer that registered in its current
\* Read and is waiting on c, and never both queued and in flight; a Read
\* that is not waiting on c (returned, or not yet in its select) has no
\* signal queued or in flight, so none is left for a later Read; a
\* registration is on offer only while Read is in its select.
C18_SingleSlotHandshake ==
    /\ c \in {0, 1}
    /\ (c = 1 \/ SignalInFlight) => (cpc = "recv" /\ rdret.waited)
    /\ ~(c = 1 /\ SignalInFlight)
    /\ SignalInFlight => ~waiter
    /\ waiter => cpc = "select"

C18_Witness ==
    /\ c = 1 /\ cpc = "recv"
    /\ ppc = "copy" /\ mu = "free"
    /\ Len(got) >= 1

\* The entries es lie in the stream s in order and apart: each entry's bytes
\* are the stream's bytes from its header start to its message end, inside
\* its token, and each token starts no earlier than the previous one ended.
InOrderAndApart(es, s) ==
    /\ \A k \in 1..Len(es) :
          /\ es[k].off <= HeaderStart(es[k])
          /\ MessageEnd(es[k]) <= Len(s)
          /\ es[k].Header \o es[k].Message
               = Slice(s, HeaderStart(es[k]), MessageEnd(es[k]))
    /\ \A k \in 1..(Len(es) - 1) : MessageEnd(es[k]) <= es[k + 1].off

\* C19: a split step that returns a token advances by exactly the token's
\* length and the token is a prefix of the window; the start of the window
\* never moves backwards in the stream; the entries returned are in stream
\* order and do not overlap, so no byte is in two entries.
C19_TokensDoNotOverlap ==
    [][/\ SplitStep
            => LET r == SplitOf(src, d, re, limits)
                   w == Window(src, d)
               IN  /\ r.hasToken
                        => /\ r.advance = Len(r.token)
                           /\ r.token = Slice(w, 0, r.advance)
                           /\ TokenEmitted
                           /\ d'.start = d.start + Len(r.token)
                   /\ 0 <= r.advance /\ r.advance <= Len(w)
       /\ WindowOffset(src', d') >= WindowOffset(src, d)
       /\ InOrderAndApart(entries', src'.data)]_vars

C19_Witness ==
    /\ ret = "EOF"
    /\ Len(entries) >= 2
    /\ truncs >= 1
    /\ HeaderStart(entries[1]) > entries[1].off
    /\ MessageEnd(entries[1]) = entries[2].off
    /\ InOrderAndApart(entries, src.data)
====
